---- MODULE Spec2Model ----
(***************************************************************************)
(* A model of couch-rs: the document-identity contract over JSON values,  *)
(* the assembly of DocumentCollection from raw responses, and the          *)
(* reconciliation of bulk writes against a revisioned document store.      *)
(*                                                                         *)
(* Strings are sequences of one-character strings, so that prefix tests   *)
(* are computed.  JSON values are records tagged by "kind".               *)
(***************************************************************************)
EXTENDS Integers, Sequences, FiniteSets, TLC

VARIABLES
    call,   \* the constructor call being made: its name and its arguments
    coll,   \* the DocumentCollection held by the caller
    pc,     \* "call" before the constructor has run, "done" after it returned
    store,  \* the database: identity -> generation of its current revision,
            \* 0 when the database does not hold the identity
    uuids,  \* how many identities the server has generated so far
    caller_docs, \* the caller's documents, handed to bulk_docs as &mut
    sent,   \* the last bulk_docs call: the documents and the database it met
    results, \* what the last bulk_docs call returned, None before any call
    held,   \* the database: identity -> body, for the documents it holds
            \* (a deleted document keeps its generation in store, not its body)
    my_doc, \* the caller's document, handed to create / save / remove
    last,   \* the last single-document call: its name, the document and the
            \* database it met, and what it returned
    fcall,  \* a pure function being applied: its name and its argument
    fret,   \* what it returned, None before it has run
    producer, \* get_all_batched: where it stands, its position, its requests
    channel,  \* the sink and its receiving end: pages queued, ends open
    consumer  \* the receive loop: pages received, rows counted, end seen

collVars == <<call, coll, pc>>

dbVars == <<store, uuids, caller_docs, sent, results>>

docVars == <<held, my_doc, last>>

fnVars == <<fcall, fret>>

batchVars == <<producer, channel, consumer>>

vars == <<call, coll, pc, store, uuids, caller_docs, sent, results,
          held, my_doc, last, fcall, fret, producer, channel, consumer>>

(***************************************************************************)
(* Bounds of the model.                                                    *)
(***************************************************************************)
\* longest rows / documents / values sequence handed to a constructor
MaxRows == 3

\* longest document sequence handed to a bulk write
MaxDocs == 2

\* highest revision generation the store reaches
MaxRev == 2

\* identities the server can generate
MaxUuids == 2

\* highest revision generation single-document writes reach
MaxGen == 3

\* rows of a view response
MaxViewRows == 2

\* application documents in the database read in batches
MaxStored == 3

\* the page size used when the caller passes 0, scaled down
DefaultBatchSize == 2

\* pages the channel between producer and consumer can hold
ChannelCapacity == 1

(***************************************************************************)
(* Option<T>                                                               *)
(***************************************************************************)
None == [some |-> FALSE]

Some(x) == [some |-> TRUE, v |-> x]

is_some(o) == o.some

(***************************************************************************)
(* serde_json::Value                                                       *)
(***************************************************************************)
JNull == [kind |-> "null"]

JBool(b) == [kind |-> "bool", b |-> b]

JNumber(n) == [kind |-> "number", n |-> n]

JString(s) == [kind |-> "string", str |-> s]

JObject(f) == [kind |-> "object", obj |-> f]

\* Value's Index<&str>: Null when self is no object or has no such key
json_index(value, key) ==
    IF value.kind = "object" /\ key \in DOMAIN value.obj
    THEN value.obj[key]
    ELSE JNull

\* serde_json::from_value::<String>: Ok only for a JSON string
from_value_String_stringifies(value) ==
    IF value.kind = "string" THEN Some(value.str)
    ELSE IF value.kind = "number" THEN Some(<<ToString(value.n)>>)
    ELSE None

from_value_String(value) ==
    IF value.kind = "string" THEN Some(value.str) ELSE None

\* json_extr!(e): from_value(e.to_owned()).unwrap_or_default(), at type String
json_extr(value) ==
    LET r == from_value_String(value) IN IF r.some THEN r.v ELSE <<>>

ID_FIELD == "_id"

REV_FIELD == "_rev"

\* impl TypedCouchDocument for Value
get_id_reads_rev_field(self) == json_extr(json_index(self, REV_FIELD))

get_id_always_default(self) == <<>>

get_id(self) == json_extr(json_index(self, ID_FIELD))

get_rev_always_default(self) == <<>>

get_rev(self) == json_extr(json_index(self, REV_FIELD))

\* serde_json Map::insert on a function from keys to values
map_insert(f, key, value) ==
    [k \in DOMAIN f \cup {key} |-> IF k = key THEN value ELSE f[k]]

set_rev_writes_nothing(self, rev) == self

set_rev_replaces_object(self, rev) ==
    IF self.kind = "object"
    THEN JObject([k \in {REV_FIELD} |-> JString(rev)])
    ELSE self

set_rev_keeps_existing(self, rev) ==
    IF self.kind = "object" /\ REV_FIELD \notin DOMAIN self.obj
    THEN JObject(map_insert(self.obj, REV_FIELD, JString(rev)))
    ELSE self

set_rev_into_id_field(self, rev) ==
    IF self.kind = "object"
    THEN JObject(map_insert(self.obj, ID_FIELD, JString(rev)))
    ELSE self

set_rev(self, rev) ==
    IF self.kind = "object"
    THEN JObject(map_insert(self.obj, REV_FIELD, JString(rev)))
    ELSE self

set_id_index_mut(self, id) ==
    IF self.kind = "object"
    THEN JObject(map_insert(self.obj, ID_FIELD, JString(id)))
    ELSE IF self.kind = "null"
    THEN JObject([k \in {ID_FIELD} |-> JString(id)])
    ELSE self

set_id_into_rev_field(self, id) ==
    IF self.kind = "object"
    THEN JObject(map_insert(self.obj, REV_FIELD, JString(id)))
    ELSE self

set_id_overwrites_only(self, id) ==
    IF self.kind = "object" /\ ID_FIELD \in DOMAIN self.obj
    THEN JObject(map_insert(self.obj, ID_FIELD, JString(id)))
    ELSE self

set_id(self, id) ==
    IF self.kind = "object"
    THEN JObject(map_insert(self.obj, ID_FIELD, JString(id)))
    ELSE self

\* impl TypedCouchDocument for Value: merge_ids
merge_ids(self, other) == set_rev(set_id(self, get_id(other)), get_rev(other))

\* str::starts_with(char)
starts_with_or_empty(s, c) == Len(s) = 0 \/ s[1] = c

starts_with(s, c) == Len(s) > 0 /\ s[1] = c

(***************************************************************************)
(* A statically typed document: TestDoc, four required String fields.      *)
(***************************************************************************)
TestDocFields == {"_id", "_rev", "first_name", "last_name"}

\* serde_json::from_value::<TestDoc>: every field present and a string;
\* unknown fields are ignored
from_value_TestDoc(value) ==
    IF /\ value.kind = "object"
       /\ \A f \in TestDocFields :
            f \in DOMAIN value.obj /\ value.obj[f].kind = "string"
    THEN Some([f \in TestDocFields |-> value.obj[f].str])
    ELSE None

(***************************************************************************)
(* DocumentCollection                                                      *)
(***************************************************************************)
\* total_rows is u32::try_from(len).expect(..): the conversion fails only above
\* u32::MAX rows, far beyond any sequence of the model, so it is the length.
\* impl Default for DocumentCollection
DocumentCollection_default ==
    [offset |-> None, rows |-> <<>>, total_rows |-> 0, bookmark |-> None]

\* the closure of filter_map in DocumentCollection::new: a row with an error
\* marker, without a document, or with a reserved identity yields nothing
keep_row_no_error_check(d) ==
    IF d.doc.some /\ ~starts_with(get_id(d.doc.v), "_") THEN d.doc ELSE None

keep_row_no_prefix_check(d) == IF is_some(d.error) THEN None ELSE d.doc

keep_row(d) ==
    IF is_some(d.error)
    THEN None
    ELSE IF d.doc.some /\ ~starts_with(get_id(d.doc.v), "_") THEN d.doc ELSE None

RECURSIVE filter_map_rows(_)
filter_map_rows(rows) ==
    IF rows = <<>>
    THEN <<>>
    ELSE LET kept == keep_row(Head(rows))
         IN  (IF kept.some THEN <<kept.v>> ELSE <<>>)
                 \o filter_map_rows(Tail(rows))

DocumentCollection_new_rows_reversed(doc) ==
    LET items == filter_map_rows(doc.rows)
    IN  [offset |-> doc.offset, total_rows |-> Len(items),
         rows |-> [j \in DOMAIN items |-> items[Len(items) + 1 - j]],
         bookmark |-> None]

DocumentCollection_new(doc) ==
    LET items == filter_map_rows(doc.rows)
    IN  [offset |-> doc.offset, total_rows |-> Len(items),
         rows |-> items, bookmark |-> None]

new_from_documents_no_offset(docs, bookmark) ==
    [offset |-> None, total_rows |-> Len(docs), rows |-> docs,
     bookmark |-> bookmark]

new_from_documents(docs, bookmark) ==
    [offset |-> Some(0), total_rows |-> Len(docs), rows |-> docs,
     bookmark |-> bookmark]

RECURSIVE filter_map_from_value(_)
filter_map_from_value(docs) ==
    IF docs = <<>>
    THEN <<>>
    ELSE LET r == from_value_TestDoc(Head(docs))
         IN  (IF r.some THEN <<r.v>> ELSE <<>>)
                 \o filter_map_from_value(Tail(docs))

RECURSIVE take_while_from_value(_)
take_while_from_value(docs) ==
    IF docs = <<>>
    THEN <<>>
    ELSE LET r == from_value_TestDoc(Head(docs))
         IN  IF r.some
             THEN <<r.v>> \o take_while_from_value(Tail(docs))
             ELSE <<>>

new_from_values_stop_at_failure(docs, bookmark) ==
    [offset |-> Some(0), total_rows |-> Len(docs),
     rows |-> take_while_from_value(docs), bookmark |-> bookmark]

new_from_values(docs, bookmark) ==
    [offset |-> Some(0), total_rows |-> Len(docs),
     rows |-> filter_map_from_value(docs), bookmark |-> bookmark]

(***************************************************************************)
(* Inputs of the constructors.                                             *)
(***************************************************************************)
\* identities: empty, plain, reserved (design document), '_' not in front
IdSamples == {<<>>, <<"a">>, <<"_", "d">>, <<"a", "_">>}

\* untyped documents as the server embeds them in a row
UntypedDoc(id) ==
    JObject([k \in {ID_FIELD, "thing"} |->
                IF k = ID_FIELD THEN JString(id) ELSE JBool(TRUE)])

DocSamples ==
    {UntypedDoc(id) : id \in IdSamples \ {<<>>}}
        \cup {JObject([k \in {"thing"} |-> JBool(TRUE)])}

\* DocResponse: only the fields DocumentCollection::new reads
DocResponses ==
    [error : {None, Some("not_found")},
     doc : {None} \cup {Some(d) : d \in DocSamples}]

SeqsUpTo(S, n) == UNION {[1..k -> S] : k \in 0..n}

AllDocsResponses ==
    {[total_rows |-> t, offset |-> o, rows |-> rows] :
        t \in {None, Some(MaxRows)},
        o \in {None, Some(0), Some(1)},
        rows \in SeqsUpTo(DocResponses, MaxRows)}

Bookmarks == {None, Some(<<"b", "m">>)}

\* JSON values handed to new_from_values: a TestDoc, a TestDoc with one more
\* field, an object lacking a field, an object whose _id is a number, null
TestDocValue(id) ==
    JObject([k \in TestDocFields |->
                IF k = ID_FIELD THEN JString(id) ELSE JString(<<"x">>)])

ValueSamples ==
    {TestDocValue(<<"a">>), TestDocValue(<<"_", "d">>),
     JObject(map_insert(TestDocValue(<<"b">>).obj, "extra", JNull)),
     UntypedDoc(<<"a">>),
     JObject(map_insert(TestDocValue(<<"a">>).obj, ID_FIELD, JNumber(1))),
     JNull}

Calls ==
    {[fn |-> "new", doc |-> r] : r \in AllDocsResponses}
    \cup {[fn |-> "new_from_documents", docs |-> d, bookmark |-> b] :
            d \in SeqsUpTo(DocSamples, MaxRows), b \in Bookmarks}
    \cup {[fn |-> "new_from_values", docs |-> d, bookmark |-> b] :
            d \in SeqsUpTo(ValueSamples, MaxRows), b \in Bookmarks}

(***************************************************************************)
(* The constructors as steps of a caller.                                  *)
(***************************************************************************)
CollInit ==
    /\ call \in Calls
    /\ coll = DocumentCollection_default
    /\ pc = "call"
    /\ store = [id \in {} |-> 0]
    /\ uuids = 0
    /\ caller_docs = <<>>
    /\ sent = [docs |-> <<>>, store |-> store, uuids |-> 0]
    /\ results = None
    /\ held = <<>>
    /\ my_doc = JNull
    /\ last = [op |-> "none"]
    /\ producer = [pc |-> "idle"]
    /\ channel = [queue |-> <<>>]
    /\ consumer = [ended |-> FALSE]
    /\ fcall = [fn |-> "none"]
    /\ fret = None

New ==
    /\ pc = "call"
    /\ call.fn = "new"
    /\ coll' = DocumentCollection_new(call.doc)
    /\ pc' = "done"
    /\ UNCHANGED <<call, dbVars, docVars, fnVars, batchVars>>

NewFromDocuments ==
    /\ pc = "call"
    /\ call.fn = "new_from_documents"
    /\ coll' = new_from_documents(call.docs, call.bookmark)
    /\ pc' = "done"
    /\ UNCHANGED <<call, dbVars, docVars, fnVars, batchVars>>

NewFromValues ==
    /\ pc = "call"
    /\ call.fn = "new_from_values"
    /\ coll' = new_from_values(call.docs, call.bookmark)
    /\ pc' = "done"
    /\ UNCHANGED <<call, dbVars, docVars, fnVars, batchVars>>

CollNext == New \/ NewFromDocuments \/ NewFromValues

SpecColl == CollInit /\ [][CollNext]_vars

(***************************************************************************)
(* CouchError                                                              *)
(***************************************************************************)
StatusCode_CONFLICT == 409

\* CouchError::new: an OperationFailed that names no document
new_without_id(id, message, status) ==
    [variant |-> "OperationFailed", id |-> None, message |-> message,
     status |-> status]

\* CouchError::new_with_id
new_with_id(id, message, status) ==
    [variant |-> "OperationFailed", id |-> id, message |-> message,
     status |-> status]

\* CouchError::status
status_inverted_match(err) ==
    IF err.variant = "OperationFailed" THEN None ELSE Some(err.status)

status(err) ==
    IF err.variant = "OperationFailed" THEN Some(err.status) ELSE None

(***************************************************************************)
(* The database behind the transport: identities, revisions, conflicts.    *)
(***************************************************************************)
ClientIds == {<<"a">>, <<"b">>}

\* the k-th identity the server generates
Uuid(k) == <<"u", ToString(k)>>

StoreIds == ClientIds \cup {Uuid(k) : k \in 1..MaxUuids}

\* the revision token of generation n
RevToken(n) == <<ToString(n)>>

\* One document of a write request.  A write is accepted when it creates an
\* identity the database does not hold and names no revision, or names the
\* current revision of an identity the database holds; anything else is a
\* conflict.  A document without identity gets a generated one.
server_write(db, item) ==
    LET id == IF item.id = <<>> THEN Uuid(db.uuids + 1) ELSE item.id
        cur == IF id \in DOMAIN db.store THEN db.store[id] ELSE 0
        accepted == \/ cur = 0 /\ item.rev = <<>>
                    \/ cur > 0 /\ item.rev = RevToken(cur)
    IN  IF accepted
        THEN [db |-> [store |-> map_insert(db.store, id, cur + 1),
                      uuids |-> IF item.id = <<>>
                                THEN db.uuids + 1 ELSE db.uuids],
              outcome |-> [ok |-> TRUE, id |-> id, rev |-> RevToken(cur + 1)]]
        ELSE [db |-> db,
              outcome |-> [ok |-> FALSE, id |-> Some(id),
                           error |-> "conflict",
                           reason |-> "Document update conflict."]]

\* POST _bulk_docs: the documents are written one by one in request order and
\* the outcomes are returned in that order
RECURSIVE server_bulk_docs(_, _)
server_bulk_docs(db, items) ==
    IF items = <<>>
    THEN [db |-> db, outcomes |-> <<>>]
    ELSE LET first == server_write(db, Head(items))
             rest == server_bulk_docs(first.db, Tail(items))
         IN  [db |-> rest.db, outcomes |-> <<first.outcome>> \o rest.outcomes]

(***************************************************************************)
(* Database::bulk_docs: request, response, reconciliation.                 *)
(***************************************************************************)
\* what is sent for one document: its identity and revision; the revision
\* of a document without identity is discarded
to_upsert_item(doc) ==
    [id |-> get_id(doc),
     rev |-> IF get_id(doc) = <<>> THEN <<>> ELSE get_rev(doc)]

\* the status of a per-item error: a conflict is 409
error_status(error) == CASE error = "conflict" -> StatusCode_CONFLICT

Ok(x) == [ok |-> TRUE, v |-> x]

Err(e) == [ok |-> FALSE, err |-> e]

\* one document and its outcome: a success writes the revision, and the
\* identity when the document had none; a failure leaves the document alone
reconcile(doc, outcome) ==
    IF outcome.ok
    THEN LET with_rev == set_rev(doc, outcome.rev)
         IN  [doc |-> IF get_id(doc) = <<>>
                      THEN set_id(with_rev, outcome.id)
                      ELSE with_rev,
              result |-> Ok([id |-> outcome.id, rev |-> outcome.rev])]
    ELSE [doc |-> doc,
          result |-> Err(new_with_id(outcome.id, outcome.reason,
                                     error_status(outcome.error)))]

\* documents and outcomes in lock-step by position
bulk_docs(raw_docs, db) ==
    LET response ==
            server_bulk_docs(db, [i \in DOMAIN raw_docs |->
                                    to_upsert_item(raw_docs[i])])
        merged == [i \in DOMAIN raw_docs |->
                     reconcile(raw_docs[i], response.outcomes[i])]
    IN  [db |-> response.db,
         docs |-> [i \in DOMAIN raw_docs |-> merged[i].doc],
         results |-> [i \in DOMAIN raw_docs |-> merged[i].result]]

(***************************************************************************)
(* A caller writing its documents in bulk, again and again.                *)
(***************************************************************************)
\* a revision token no database has minted: left over from another database
StaleRev == <<"s">>

BulkRevs == {<<>>, StaleRev} \cup {RevToken(n) : n \in 1..MaxRev}

\* a JSON object with the given identity and revision ("" = field absent)
BulkDoc(id, rev, thing) ==
    JObject([k \in {"thing"} \cup (IF id = <<>> THEN {} ELSE {ID_FIELD})
                     \cup (IF rev = <<>> THEN {} ELSE {REV_FIELD}) |->
                IF k = ID_FIELD THEN JString(id)
                ELSE IF k = REV_FIELD THEN JString(rev)
                ELSE JBool(thing)])

BulkDocSamples ==
    {BulkDoc(id, rev, thing) :
        id \in {<<>>} \cup ClientIds, rev \in BulkRevs, thing \in BOOLEAN}

\* a caller holds no revision that the database has not minted yet
Mintable(doc, st) ==
    \A n \in 1..MaxRev :
        get_rev(doc) = RevToken(n) =>
            get_id(doc) \in DOMAIN st /\ n <= st[get_id(doc)]

InitialStores ==
    {f \in [StoreIds -> 0..1] : \A id \in StoreIds \ ClientIds : f[id] = 0}

Init ==
    /\ call = [fn |-> "none"]
    /\ coll = DocumentCollection_default
    /\ pc = "call"
    /\ store \in InitialStores
    /\ uuids = 0
    /\ caller_docs \in {ds \in SeqsUpTo(BulkDocSamples, MaxDocs) :
                          \A i \in DOMAIN ds : Mintable(ds[i], store)}
    /\ sent = [docs |-> <<>>, store |-> store, uuids |-> 0]
    /\ results = None
    /\ held = <<>>
    /\ my_doc = JNull
    /\ last = [op |-> "none"]
    /\ producer = [pc |-> "idle"]
    /\ channel = [queue |-> <<>>]
    /\ consumer = [ended |-> FALSE]
    /\ fcall = [fn |-> "none"]
    /\ fret = None

BulkDocs ==
    LET r == bulk_docs(caller_docs, [store |-> store, uuids |-> uuids])
    IN  /\ \A id \in DOMAIN r.db.store : r.db.store[id] <= MaxRev
        /\ r.db.uuids <= MaxUuids
        /\ sent' = [docs |-> caller_docs, store |-> store, uuids |-> uuids]
        /\ caller_docs' = r.docs
        /\ results' = Some(r.results)
        /\ store' = r.db.store
        /\ uuids' = r.db.uuids
        /\ UNCHANGED <<collVars, docVars, fnVars, batchVars>>

Next == BulkDocs

Spec == Init /\ [][Next]_vars

(***************************************************************************)
(* Properties of DocumentCollection assembly.                              *)
(***************************************************************************)
Card(S) == Cardinality(S)

\* how often x occurs in the sequence s
Count(s, x) == Card({k \in DOMAIN s : s[k] = x})

ResponseRows == call.doc.rows

ErrorRows == {i \in DOMAIN ResponseRows : ResponseRows[i].error.some}

ReservedRows ==
    {i \in DOMAIN ResponseRows :
        /\ ResponseRows[i].doc.some
        /\ starts_with(get_id(ResponseRows[i].doc.v), "_")}

NoDocRows ==
    {i \in DOMAIN ResponseRows :
        ~ResponseRows[i].error.some /\ ~ResponseRows[i].doc.some}

ReturnedFrom(fn) == pc = "done" /\ call.fn = fn

\* C1 as stated: a collection built by DocumentCollection::new from N rows,
\* E of them with an error marker and I of them embedding a document whose
\* identity starts with '_', has total_rows = N - E - I = rows.len().
C1_TotalRowsIsNMinusEMinusI ==
    ReturnedFrom("new") =>
        /\ coll.total_rows
             = Len(ResponseRows) - Card(ErrorRows) - Card(ReservedRows)
        /\ Len(coll.rows) = coll.total_rows

\* C1 amended: with E the rows carrying an error marker, I the rows without
\* an error marker whose embedded document's identity starts with '_', and M
\* the rows with neither an error marker nor an embedded document,
\* total_rows = N - E - I - M = rows.len().
C1_TotalRowsCountsKeptRows ==
    ReturnedFrom("new") =>
        /\ coll.total_rows
             = Len(ResponseRows) - Card(ErrorRows)
                 - Card(ReservedRows \ ErrorRows) - Card(NoDocRows)
        /\ Len(coll.rows) = coll.total_rows

C1_Witness ==
    /\ ReturnedFrom("new")
    /\ ErrorRows # {}
    /\ ReservedRows \ ErrorRows # {}
    /\ coll.total_rows = 1

\* C2: the collection built by DocumentCollection::new holds no document with
\* a reserved identity, holds each document at most as often as rows without
\* an error marker embed it, and total_rows counts no error row and no
\* reserved row.
C2_NoErrorRowNoReservedDocument ==
    ReturnedFrom("new") =>
        /\ \A k \in DOMAIN coll.rows : ~starts_with(get_id(coll.rows[k]), "_")
        /\ \A d \in DocSamples :
             Count(coll.rows, d)
               <= Card({i \in DOMAIN ResponseRows \ ErrorRows :
                           ResponseRows[i].doc = Some(d)})
        /\ coll.total_rows
             <= Card(DOMAIN ResponseRows \ (ErrorRows \cup ReservedRows))

C2_Witness ==
    /\ ReturnedFrom("new")
    /\ \E i \in ErrorRows, j \in DOMAIN ResponseRows \ ErrorRows :
         /\ ResponseRows[i].doc.some
         /\ ResponseRows[j].doc.some
         /\ ~starts_with(get_id(ResponseRows[i].doc.v), "_")
         /\ ResponseRows[i].doc # ResponseRows[j].doc
         /\ coll.rows = <<ResponseRows[j].doc.v>>
    /\ ReservedRows \ ErrorRows # {}

\* C3: whichever constructor returned the collection, total_rows is the number
\* of documents held in rows.
C3_TotalRowsIsRowsLen ==
    pc = "done" => coll.total_rows = Len(coll.rows)

\* C4: new_from_documents(docs, bookmark) returns rows = docs in the same
\* order, offset 0, total_rows = len(docs) and the bookmark passed in.
C4_NewFromDocuments ==
    ReturnedFrom("new_from_documents") =>
        /\ coll.rows = call.docs
        /\ coll.offset = Some(0)
        /\ coll.total_rows = Len(call.docs)
        /\ coll.bookmark = call.bookmark

C4_Witness ==
    /\ ReturnedFrom("new_from_documents")
    /\ Len(coll.rows) = MaxRows
    /\ coll.rows[1] # coll.rows[2]
    /\ coll.bookmark.some

Decodable == {i \in DOMAIN call.docs : from_value_TestDoc(call.docs[i]).some}

\* C5: new_from_values returns a collection whose rows are the decodings of
\* exactly the values that decode, in their order; the values that fail to
\* decode are dropped.
C5_NewFromValuesDropsUndecodable ==
    ReturnedFrom("new_from_values") =>
        /\ Len(coll.rows) = Card(Decodable)
        /\ \A i \in Decodable :
             coll.rows[Card({j \in Decodable : j <= i})]
               = from_value_TestDoc(call.docs[i]).v

C5_Witness ==
    /\ ReturnedFrom("new_from_values")
    /\ Len(call.docs) = MaxRows
    /\ 1 \notin Decodable
    /\ Len(coll.rows) = MaxRows - 1
    /\ coll.rows[1] # coll.rows[2]

(***************************************************************************)
(* Properties of bulk writes.  The identity and revision of a document     *)
(* are read off its JSON fields here, not through the accessors.           *)
(***************************************************************************)
FieldOf(doc, key) ==
    IF key \in DOMAIN doc.obj THEN doc.obj[key].str ELSE <<>>

IdOf(doc) == FieldOf(doc, "_id")

RevOf(doc) == FieldOf(doc, "_rev")

Positions == DOMAIN sent.docs

Succeeded == {i \in Positions : results.v[i].ok}

Failed == {i \in Positions : ~results.v[i].ok}

\* the identity the database writes position i under: the document's own,
\* or the next generated one
WrittenId(i) ==
    IF IdOf(sent.docs[i]) # <<>>
    THEN IdOf(sent.docs[i])
    ELSE Uuid(sent.uuids
                + Card({j \in 1..i : IdOf(sent.docs[j]) = <<>>}))

\* C6: a bulk write of N documents returns N results, and the result at
\* position i is about the document at position i: a success names the
\* identity that document was written under, a failure names its identity.
C6_OneResultPerPosition ==
    results.some =>
        /\ Len(results.v) = Len(sent.docs)
        /\ Len(caller_docs) = Len(sent.docs)
        /\ \A i \in Succeeded : results.v[i].v.id = WrittenId(i)
        /\ \A i \in Failed : results.v[i].err.id = Some(IdOf(sent.docs[i]))

C6_Witness ==
    /\ results.some
    /\ Len(results.v) = MaxDocs
    /\ 1 \in Failed
    /\ MaxDocs \in Succeeded
    /\ IdOf(sent.docs[1]) # IdOf(sent.docs[MaxDocs])

\* C7: after a bulk write every document at a successful position carries
\* the revision reported at that position, and keeps its identity if it had
\* one before the call.
C7_SuccessWritesRevisionKeepsIdentity ==
    results.some =>
        \A i \in Succeeded :
            /\ RevOf(caller_docs[i]) = results.v[i].v.rev
            /\ IdOf(sent.docs[i]) # <<>> =>
                 IdOf(caller_docs[i]) = IdOf(sent.docs[i])

C7_Witness ==
    /\ results.some
    /\ \E i \in Succeeded :
         /\ IdOf(sent.docs[i]) # <<>>
         /\ RevOf(sent.docs[i]) = RevToken(1)
         /\ RevOf(caller_docs[i]) = RevToken(2)

\* C8: after a bulk write every document at a failed position is as it was
\* before the call, the failure at that position names the identity the
\* server reported, and the documents at the successful positions carry
\* their reported revisions all the same.
C8_FailureLeavesDocumentAndSiblings ==
    results.some /\ Failed # {} =>
        /\ \A i \in Failed :
             /\ caller_docs[i] = sent.docs[i]
             /\ results.v[i].err.variant = "OperationFailed"
             /\ results.v[i].err.id = Some(IdOf(sent.docs[i]))
        /\ \A j \in Succeeded :
             /\ RevOf(caller_docs[j]) = results.v[j].v.rev
             /\ RevOf(caller_docs[j]) # RevOf(sent.docs[j])

C8_Witness ==
    /\ results.some
    /\ Len(results.v) = MaxDocs
    /\ 1 \in Failed
    /\ RevOf(sent.docs[1]) = StaleRev
    /\ MaxDocs \in Succeeded

\* C9: after a bulk write every document that had no identity and whose
\* position succeeded carries the identity reported at that position.
C9_SuccessAssignsIdentity ==
    results.some =>
        \A i \in Succeeded :
            IdOf(sent.docs[i]) = <<>> =>
                /\ IdOf(caller_docs[i]) = results.v[i].v.id
                /\ IdOf(caller_docs[i]) # <<>>

C9_Witness ==
    /\ results.some
    /\ \E i \in Succeeded :
         /\ IdOf(sent.docs[i]) = <<>>
         /\ RevOf(sent.docs[i]) = StaleRev
         /\ IdOf(caller_docs[i]) = Uuid(MaxUuids)

\* the last call wrote two documents of one identity the database did not hold
DuplicateOnFreshIdentity ==
    /\ results.some
    /\ Len(sent.docs) = 2
    /\ IdOf(sent.docs[1]) # <<>>
    /\ IdOf(sent.docs[1]) = IdOf(sent.docs[2])
    /\ sent.store[IdOf(sent.docs[1])] = 0

FirstWins ==
    /\ results.v[1].ok
    /\ ~results.v[2].ok
    /\ status(results.v[2].err) = Some(StatusCode_CONFLICT)
    /\ RevOf(caller_docs[1]) = results.v[1].v.rev
    /\ RevOf(caller_docs[1]) # <<>>
    /\ caller_docs[2] = sent.docs[2]

StatusCode_NOT_FOUND == 404

\* CouchError::new: an OperationFailed that names no document
CouchError_new(message, status_code) ==
    [variant |-> "OperationFailed", id |-> None, message |-> message,
     status |-> status_code]

\* CouchError::is_not_found
is_not_found_any_operation_failed(self) == status(self) # None

is_not_found_checks_conflict(self) == status(self) = Some(StatusCode_CONFLICT)

is_not_found(self) == status(self) = Some(StatusCode_NOT_FOUND)

\* CouchResultExt::into_option for CouchResult<T>
into_option_swallows_errors(self) ==
    IF self.ok THEN Ok(Some(self.v)) ELSE Ok(None)

into_option(self) ==
    IF self.ok
    THEN Ok(Some(self.v))
    ELSE IF is_not_found(self.err) THEN Ok(None) ELSE Err(self.err)

(***************************************************************************)
(* The error functions applied to sample errors and results.               *)
(***************************************************************************)
\* 400, 404, 409, 500 and 501 (the status of a transport error that carries
\* none)
StatusCodes == {400, StatusCode_NOT_FOUND, StatusCode_CONFLICT, 500, 501}

ErrorMessages == {"not_found", "conflict"}

OperationFailedSamples ==
    {CouchError_new(m, st) : m \in ErrorMessages, st \in StatusCodes}
    \cup {new_with_id(Some(<<"a">>), m, st) :
              m \in ErrorMessages, st \in StatusCodes}

\* InvalidJson, MalformedUrl and CreateDesignFailed carry an ErrorMessage
MessageErrorSamples ==
    {[variant |-> v, message |-> m] :
         v \in {"InvalidJson", "MalformedUrl", "CreateDesignFailed"},
         m \in ErrorMessages}

CouchErrorSamples == OperationFailedSamples \cup MessageErrorSamples

CouchResultSamples ==
    {Ok(d) : d \in {UntypedDoc(<<>>), UntypedDoc(<<"a">>), JNull}}
    \cup {Err(e) : e \in CouchErrorSamples}

ErrCalls ==
    {[fn |-> "into_option", arg |-> r] : r \in CouchResultSamples}
    \cup {[fn |-> "is_not_found", arg |-> e] : e \in CouchErrorSamples}
    \cup {[fn |-> "status", arg |-> e] : e \in CouchErrorSamples}

ErrInit ==
    /\ fcall \in ErrCalls
    /\ fret = None
    /\ call = [fn |-> "none"]
    /\ coll = DocumentCollection_default
    /\ pc = "call"
    /\ store = <<>>
    /\ uuids = 0
    /\ caller_docs = <<>>
    /\ sent = [docs |-> <<>>, store |-> store, uuids |-> 0]
    /\ results = None
    /\ held = <<>>
    /\ my_doc = JNull
    /\ last = [op |-> "none"]
    /\ producer = [pc |-> "idle"]
    /\ channel = [queue |-> <<>>]
    /\ consumer = [ended |-> FALSE]

IntoOption ==
    /\ fret = None
    /\ fcall.fn = "into_option"
    /\ fret' = Some(into_option(fcall.arg))
    /\ UNCHANGED <<fcall, collVars, dbVars, docVars, batchVars>>

IsNotFound ==
    /\ fret = None
    /\ fcall.fn = "is_not_found"
    /\ fret' = Some(is_not_found(fcall.arg))
    /\ UNCHANGED <<fcall, collVars, dbVars, docVars, batchVars>>

Status ==
    /\ fret = None
    /\ fcall.fn = "status"
    /\ fret' = Some(status(fcall.arg))
    /\ UNCHANGED <<fcall, collVars, dbVars, docVars, batchVars>>

ErrNext == IntoOption \/ IsNotFound \/ Status

SpecErr == ErrInit /\ [][ErrNext]_vars

(***************************************************************************)
(* Claims about the error taxonomy.                                        *)
(***************************************************************************)
Applied(fn) == fcall.fn = fn /\ fret # None

\* C18: into_option maps Ok(r) to Ok(Some(r)), maps an error whose
\* is_not_found() holds to Ok(None), and returns every other error as it
\* was (same variant, same status, same fields); an InvalidJson,
\* MalformedUrl, CreateDesignFailed or non-404 OperationFailed error never
\* becomes Ok(None).
C18_IntoOption ==
    Applied("into_option") =>
        LET r == fcall.arg
            out == fret.v
        IN  /\ r.ok => out = Ok(Some(r.v))
            /\ ~r.ok /\ r.err.variant = "OperationFailed"
                     /\ r.err.status = 404 => out = Ok(None)
            /\ ~r.ok /\ ~(r.err.variant = "OperationFailed"
                          /\ r.err.status = 404) =>
                   /\ ~out.ok
                   /\ out.err = r.err
                   /\ out # Ok(None)

C18_Witness ==
    /\ Applied("into_option")
    /\ ~fcall.arg.ok
    /\ fcall.arg.err.variant = "OperationFailed"
    /\ fcall.arg.err.status = 409
    /\ fret.v = Err(fcall.arg.err)

\* C19: is_not_found() is true exactly for an OperationFailed error whose
\* status is 404; it is false for an OperationFailed error of any other
\* status, 409 included, and for every InvalidJson, MalformedUrl and
\* CreateDesignFailed error, and status() of these three is None.
C19_IsNotFoundExactly404 ==
    /\ Applied("is_not_found") =>
           (fret.v <=> /\ fcall.arg.variant = "OperationFailed"
                       /\ fcall.arg.status = 404)
    /\ Applied("status") =>
           IF fcall.arg.variant = "OperationFailed"
           THEN fret.v = Some(fcall.arg.status)
           ELSE fret.v = None

C19_Witness ==
    /\ Applied("is_not_found")
    /\ fcall.arg.variant = "OperationFailed"
    /\ fcall.arg.status = 409
    /\ fret.v = FALSE

(***************************************************************************)
(* The database behind the single-document requests.  It holds a body per  *)
(* live identity; a deleted identity keeps its revision generation.        *)
(***************************************************************************)
\* impl From<reqwest::Error> for CouchError: the status of the response, or
\* 501 when the transport error carries none
StatusCode_NOT_IMPLEMENTED == 501

from_reqwest_error(err) ==
    [variant |-> "OperationFailed", id |-> None,
     status |-> IF err.status.some
                THEN err.status.v ELSE StatusCode_NOT_IMPLEMENTED,
     message |-> err.message]

map_remove(f, key) == [k \in DOMAIN f \ {key} |-> f[k]]

holds(db, id) == id \in DOMAIN db.held

generation(db, id) == IF id \in DOMAIN db.store THEN db.store[id] ELSE 0

\* the document the database holds under id, as a reader receives it
stored_doc(db, id) ==
    JObject([k \in DOMAIN db.held[id] \cup {ID_FIELD, REV_FIELD} |->
                IF k = ID_FIELD THEN JString(id)
                ELSE IF k = REV_FIELD THEN JString(RevToken(db.store[id]))
                ELSE db.held[id][k]])

\* POST to the database: a first creation.  No revision is looked at; an
\* identity the database holds is a conflict, a missing one is generated.
server_post(db, item) ==
    LET id == IF item.id = <<>> THEN Uuid(db.uuids + 1) ELSE item.id
        cur == generation(db, id)
    IN  IF ~holds(db, id)
        THEN [db |-> [store |-> map_insert(db.store, id, cur + 1),
                      uuids |-> IF item.id = <<>>
                                THEN db.uuids + 1 ELSE db.uuids,
                      held |-> map_insert(db.held, id, item.body)],
              outcome |-> [ok |-> TRUE, id |-> id, rev |-> RevToken(cur + 1)]]
        ELSE [db |-> db,
              outcome |-> [ok |-> FALSE, error |-> "conflict",
                           status |-> StatusCode_CONFLICT]]

\* PUT of a document: accepted when the database holds the identity and the
\* revision sent is its current one, a conflict otherwise
server_put(db, item) ==
    LET cur == generation(db, item.id)
    IN  IF holds(db, item.id) /\ item.rev = RevToken(cur)
        THEN [db |-> [db EXCEPT
                        !.store = map_insert(db.store, item.id, cur + 1),
                        !.held = map_insert(db.held, item.id, item.body)],
              outcome |-> [ok |-> TRUE, id |-> item.id,
                           rev |-> RevToken(cur + 1)]]
        ELSE [db |-> db,
              outcome |-> [ok |-> FALSE, error |-> "conflict",
                           status |-> StatusCode_CONFLICT]]

\* DELETE of a document at a revision: the deletion is a write of its own
server_delete(db, id, rev) ==
    LET cur == generation(db, id)
    IN  IF holds(db, id) /\ rev = RevToken(cur)
        THEN [db |-> [db EXCEPT
                        !.store = map_insert(db.store, id, cur + 1),
                        !.held = map_remove(db.held, id)],
              ok |-> TRUE]
        ELSE [db |-> db, ok |-> FALSE]

\* GET of a document: 404 for an identity the database does not hold
server_get(db, id) ==
    IF holds(db, id)
    THEN [ok |-> TRUE, doc |-> stored_doc(db, id)]
    ELSE [ok |-> FALSE,
          err |-> [status |-> Some(StatusCode_NOT_FOUND),
                   message |-> "not_found"]]

\* the identities in the order of a full read
SortedIds == <<<<"a">>, <<"b">>>> \o [k \in 1..MaxUuids |-> Uuid(k)]

RECURSIVE rows_of(_, _)
rows_of(db, ids) ==
    IF ids = <<>>
    THEN <<>>
    ELSE (IF holds(db, Head(ids))
          THEN <<[error |-> None, doc |-> Some(stored_doc(db, Head(ids)))]>>
          ELSE <<>>) \o rows_of(db, Tail(ids))

\* GET _all_docs with include_docs: one row per document held
server_all_docs(db) ==
    LET rows == rows_of(db, SortedIds)
    IN  [total_rows |-> Some(Len(rows)), offset |-> Some(0), rows |-> rows]

(***************************************************************************)
(* Database::create, save, remove, get, get_all.                           *)
(***************************************************************************)
\* the fields of a document other than identity and revision
body_of(doc) ==
    IF doc.kind = "object"
    THEN [k \in DOMAIN doc.obj \ {ID_FIELD, REV_FIELD} |-> doc.obj[k]]
    ELSE <<>>

\* a success writes the identity and the revision of the response into the
\* caller's document; a failure leaves it alone
written(doc, outcome) ==
    IF outcome.ok
    THEN [doc |-> set_rev(set_id(doc, outcome.id), outcome.rev),
          result |-> Ok([id |-> outcome.id, rev |-> outcome.rev])]
    ELSE [doc |-> doc,
          result |-> Err(CouchError_new(outcome.error, outcome.status))]

\* create: the document is posted without its revision
create(doc, db) ==
    LET r == server_post(db, [id |-> get_id(doc), body |-> body_of(doc)])
        w == written(doc, r.outcome)
    IN  [db |-> r.db, doc |-> w.doc, result |-> w.result]

\* save: the document is put under its identity with its revision
save(doc, db) ==
    LET r == server_put(db, [id |-> get_id(doc), rev |-> get_rev(doc),
                             body |-> body_of(doc)])
        w == written(doc, r.outcome)
    IN  [db |-> r.db, doc |-> w.doc, result |-> w.result]

\* remove: true when the deletion at the document's revision went through
remove(doc, db) ==
    LET r == server_delete(db, get_id(doc), get_rev(doc))
    IN  [db |-> r.db, result |-> r.ok]

\* get: the document, or the error of the response
get(id, db) ==
    LET r == server_get(db, id)
    IN  IF r.ok THEN Ok(r.doc) ELSE Err(from_reqwest_error(r.err))

\* get_all: the full read as a DocumentCollection
get_all(db) == DocumentCollection_new(server_all_docs(db))

(***************************************************************************)
(* A caller with one document at a time, and another writer, against one   *)
(* database.                                                               *)
(***************************************************************************)
\* documents a caller starts from: with or without identity, without
\* revision or with a revision left over from elsewhere
NewDocSamples ==
    {BulkDoc(id, rev, TRUE) : id \in {<<>>} \cup ClientIds,
                              rev \in {<<>>, StaleRev}}

\* the database before the caller's first call: empty, or one document
InitialHeld ==
    {<<>>, [id \in {<<"b">>} |-> [k \in {"thing"} |-> JBool(TRUE)]]}

Db == [store |-> store, uuids |-> uuids, held |-> held]

WithinBounds(db) ==
    /\ \A id \in DOMAIN db.store : db.store[id] <= MaxGen
    /\ db.uuids <= MaxUuids

DbInit ==
    /\ held \in InitialHeld
    /\ store = [id \in StoreIds |-> IF id \in DOMAIN held THEN 1 ELSE 0]
    /\ uuids = 0
    /\ my_doc \in NewDocSamples
    /\ last = [op |-> "none"]
    /\ producer = [pc |-> "idle"]
    /\ channel = [queue |-> <<>>]
    /\ consumer = [ended |-> FALSE]
    /\ call = [fn |-> "none"]
    /\ coll = DocumentCollection_default
    /\ pc = "call"
    /\ caller_docs = <<>>
    /\ sent = [docs |-> <<>>, store |-> <<>>, uuids |-> 0]
    /\ results = None
    /\ fcall = [fn |-> "none"]
    /\ fret = None

DbUnchanged ==
    UNCHANGED <<collVars, caller_docs, sent, results, fnVars, batchVars>>

\* doc["thing"] = json!(false), or back
Edit ==
    /\ my_doc' = JObject(map_insert(my_doc.obj, "thing",
                                    JBool(~my_doc.obj["thing"].b)))
    /\ last' = [op |-> "edit"]
    /\ UNCHANGED <<store, uuids, held>>
    /\ DbUnchanged

Create ==
    LET r == create(my_doc, Db)
    IN  /\ WithinBounds(r.db)
        /\ last' = [op |-> "create", doc |-> my_doc, db |-> Db,
                    result |-> r.result]
        /\ my_doc' = r.doc
        /\ store' = r.db.store
        /\ uuids' = r.db.uuids
        /\ held' = r.db.held
        /\ DbUnchanged

Save ==
    LET r == save(my_doc, Db)
    IN  /\ WithinBounds(r.db)
        /\ last' = [op |-> "save", doc |-> my_doc, db |-> Db,
                    result |-> r.result]
        /\ my_doc' = r.doc
        /\ store' = r.db.store
        /\ uuids' = r.db.uuids
        /\ held' = r.db.held
        /\ DbUnchanged

Remove ==
    LET r == remove(my_doc, Db)
    IN  /\ WithinBounds(r.db)
        /\ last' = [op |-> "remove", doc |-> my_doc, db |-> Db,
                    result |-> r.result]
        /\ store' = r.db.store
        /\ uuids' = r.db.uuids
        /\ held' = r.db.held
        /\ UNCHANGED my_doc
        /\ DbUnchanged

\* get by identity; the caller goes on with the document it received
Get ==
    \E id \in StoreIds :
        LET r == get(id, Db)
        IN  /\ last' = [op |-> "get", id |-> id, db |-> Db, result |-> r]
            /\ my_doc' = IF r.ok THEN r.v ELSE my_doc
            /\ UNCHANGED <<store, uuids, held>>
            /\ DbUnchanged

GetAll ==
    /\ last' = [op |-> "get_all", db |-> Db, result |-> Ok(get_all(Db))]
    /\ UNCHANGED <<store, uuids, held, my_doc>>
    /\ DbUnchanged

\* another client saves a document the database holds
OtherWriter ==
    \E id \in DOMAIN held :
        LET r == server_put(Db, [id |-> id, rev |-> RevToken(store[id]),
                                 body |-> held[id]])
        IN  /\ WithinBounds(r.db)
            /\ store' = r.db.store
            /\ held' = r.db.held
            /\ last' = [op |-> "other"]
            /\ UNCHANGED <<uuids, my_doc>>
            /\ DbUnchanged

DbNext ==
    \/ Edit
    \/ Create
    \/ Save
    \/ Remove
    \/ Get
    \/ GetAll
    \/ OtherWriter

SpecDb == DbInit /\ [][DbNext]_vars

(***************************************************************************)
(* Claims about create, save, remove and get.                              *)
(***************************************************************************)
\* the outcome of the last call, when it was a write that succeeded
Wrote(op) == last.op = op /\ last.result.ok

\* C11: a successful create of a document with an empty identity leaves
\* the document with a non-empty identity, the one of the response, and
\* with the revision returned in the response.
C11_CreateAssignsIdentityAndRevision ==
    Wrote("create") /\ IdOf(last.doc) = <<>> =>
        /\ IdOf(my_doc) # <<>>
        /\ IdOf(my_doc) = last.result.v.id
        /\ RevOf(my_doc) = last.result.v.rev

C11_Witness ==
    /\ Wrote("create")
    /\ IdOf(last.doc) = <<>>
    /\ IdOf(my_doc) = Uuid(1)
    /\ RevOf(my_doc) = RevToken(1)

\* C12: a successful create of a document with a client-chosen identity
\* leaves the document's identity as chosen, and get under that identity
\* then returns the document: same identity, same body, the new revision.
C12_CreateKeepsChosenIdentity ==
    Wrote("create") /\ IdOf(last.doc) # <<>> =>
        LET read == get(IdOf(last.doc), Db)
        IN  /\ IdOf(my_doc) = IdOf(last.doc)
            /\ read.ok
            /\ IdOf(read.v) = IdOf(last.doc)
            /\ RevOf(read.v) = RevOf(my_doc)
            /\ body_of(read.v) = body_of(last.doc)

C12_Witness ==
    /\ Wrote("create")
    /\ IdOf(last.doc) = <<"a">>
    /\ IdOf(my_doc) = <<"a">>
    /\ get(<<"a">>, Db) = Ok(my_doc)

\* C13: create of a document that carries a client-supplied revision, under
\* an identity the database does not hold, succeeds: the supplied revision
\* is discarded and the document's revision afterwards is the non-empty
\* revision of the response.
C13_CreateDiscardsSuppliedRevision ==
    /\ last.op = "create"
    /\ RevOf(last.doc) # <<>>
    /\ ~holds(last.db, IdOf(last.doc))
    => /\ last.result.ok
       /\ last.result.v.rev # <<>>
       /\ last.result.v.rev # RevOf(last.doc)
       /\ RevOf(my_doc) = last.result.v.rev

C13_Witness ==
    /\ Wrote("create")
    /\ IdOf(last.doc) = <<"a">>
    /\ RevOf(last.doc) = StaleRev
    /\ RevOf(my_doc) = RevToken(1)

\* C14: save succeeds only when the document's revision is non-empty and is
\* the database's current revision of that identity, and then the
\* document's revision is the one of the response; otherwise save fails
\* with a conflict (409) and the document is as it was.
SaveAccepted ==
    /\ RevOf(last.doc) # <<>>
    /\ holds(last.db, IdOf(last.doc))
    /\ RevOf(last.doc) = RevToken(generation(last.db, IdOf(last.doc)))

C14_SaveNeedsCurrentRevision ==
    last.op = "save" =>
        /\ last.result.ok => /\ SaveAccepted
                             /\ RevOf(my_doc) = last.result.v.rev
        /\ ~SaveAccepted => /\ ~last.result.ok
                            /\ last.result.err.variant = "OperationFailed"
                            /\ last.result.err.status = 409
                            /\ my_doc = last.doc

C14_Witness ==
    /\ Wrote("save")
    /\ RevOf(last.doc) = RevToken(1)
    /\ RevOf(my_doc) = RevToken(2)

\* C15: every successful write of a document gives it a revision different
\* from the one it had before, whether or not the body changed; so the
\* revisions of two successful saves in a row differ.
C15_WriteChangesRevision ==
    Wrote("create") \/ Wrote("save") =>
        /\ last.result.v.rev # RevOf(last.doc)
        /\ RevOf(my_doc) # RevOf(last.doc)
        /\ RevOf(my_doc) = RevToken(store[IdOf(my_doc)])
        /\ store[IdOf(my_doc)] > generation(last.db, IdOf(my_doc))

C15_Witness ==
    /\ Wrote("save")
    /\ body_of(last.doc) = last.db.held[IdOf(last.doc)]
    /\ RevOf(last.doc) = RevToken(2)
    /\ RevOf(my_doc) = RevToken(3)

\* C16: get of an identity the database does not hold fails with an
\* OperationFailed error whose is_not_found() is true; get of an identity
\* it holds returns the document held: identity, current revision, body.
C16_GetFindsOrNotFound ==
    last.op = "get" =>
        IF holds(last.db, last.id)
        THEN /\ last.result.ok
             /\ IdOf(last.result.v) = last.id
             /\ RevOf(last.result.v) = RevToken(last.db.store[last.id])
             /\ body_of(last.result.v) = last.db.held[last.id]
        ELSE /\ ~last.result.ok
             /\ last.result.err.variant = "OperationFailed"
             /\ is_not_found(last.result.err)

C16_Witness ==
    /\ last.op = "get"
    /\ ~holds(last.db, last.id)
    /\ DOMAIN last.db.held # {}
    /\ ~last.result.ok

\* C17: remove returns true when the database holds the document at the
\* revision the document carries, and after a remove that returned true a
\* full read has one row less and no row of that identity.
C17_RemoveDropsOneRow ==
    last.op = "remove" =>
        LET id == IdOf(last.doc)
            before == get_all(last.db).rows
            after == get_all(Db).rows
        IN  /\ holds(last.db, id)
                /\ RevOf(last.doc) = RevToken(generation(last.db, id))
                => last.result
            /\ last.result =>
                /\ Len(after) = Len(before) - 1
                /\ \E i \in DOMAIN before : IdOf(before[i]) = id
                /\ \A i \in DOMAIN after : IdOf(after[i]) # id

C17_Witness ==
    /\ last.op = "remove"
    /\ last.result
    /\ Len(get_all(last.db).rows) = 2
    /\ Len(get_all(Db).rows) = 1

(***************************************************************************)
(* ViewCollection<K, V, T> and ViewItem<K, V, T>: what their derived       *)
(* Deserialize accepts.  K and V are named by the caller; T is Value.      *)
(***************************************************************************)
JArray(a) == [kind |-> "array", arr |-> a]

\* impl From<serde_json::Error> for CouchError
from_serde_json_error(message) ==
    [variant |-> "InvalidJson", message |-> message]

\* Deserialize at a type, from a JSON value: a String takes a string only,
\* a Value takes anything, an Option takes null as None, a u32 a number
deserialize_at(type, value) ==
    CASE type = "String" ->
             IF value.kind = "string"
             THEN Ok(value.str) ELSE Err("invalid type")
      [] type = "Value" -> Ok(value)
      [] type = "Option<String>" ->
             IF value.kind = "null" THEN Ok(None)
             ELSE IF value.kind = "string" THEN Ok(Some(value.str))
             ELSE Err("invalid type")
      [] type = "Option<Value>" ->
             IF value.kind = "null" THEN Ok(None) ELSE Ok(Some(value))
      [] type = "Option<u32>" ->
             IF value.kind = "null" THEN Ok(None)
             ELSE IF value.kind = "number" /\ value.n >= 0
                  THEN Ok(Some(value.n))
             ELSE Err("invalid type")

\* a field the object lacks: None for an Option, an error for anything else
missing_field(type) ==
    IF type \in {"Option<String>", "Option<Value>", "Option<u32>"}
    THEN Ok(None)
    ELSE Err("missing field")

deserialize_field(type, object, key) ==
    IF key \in DOMAIN object
    THEN deserialize_at(type, object[key])
    ELSE missing_field(type)

\* ViewItem { key: K, value: V, id: Option<String>, doc: Option<T> }
from_value_ViewItem(row, K, V) ==
    IF row.kind # "object"
    THEN Err("invalid type")
    ELSE LET key == deserialize_field(K, row.obj, "key")
             value == deserialize_field(V, row.obj, "value")
             id == deserialize_field("Option<String>", row.obj, "id")
             doc == deserialize_field("Option<Value>", row.obj, "doc")
         IN  IF ~key.ok THEN key
             ELSE IF ~value.ok THEN value
             ELSE IF ~id.ok THEN id
             ELSE IF ~doc.ok THEN doc
             ELSE Ok([key |-> key.v, value |-> value.v, id |-> id.v,
                      doc |-> doc.v])

\* Vec<ViewItem>: every element has to decode
RECURSIVE from_value_rows(_, _, _)
from_value_rows(arr, K, V) ==
    IF arr = <<>>
    THEN Ok(<<>>)
    ELSE LET first == from_value_ViewItem(Head(arr), K, V)
             rest == from_value_rows(Tail(arr), K, V)
         IN  IF ~first.ok THEN first
             ELSE IF ~rest.ok THEN rest
             ELSE Ok(<<first.v>> \o rest.v)

RECURSIVE rows_that_decode(_, _, _)
rows_that_decode(arr, K, V) ==
    IF arr = <<>>
    THEN Ok(<<>>)
    ELSE LET first == from_value_ViewItem(Head(arr), K, V)
             rest == rows_that_decode(Tail(arr), K, V)
         IN  Ok((IF first.ok THEN <<first.v>> ELSE <<>>) \o rest.v)

\* ViewCollection { offset: Option<u32>, rows: Vec<ViewItem>,
\*                  total_rows: Option<u32> }
from_value_ViewCollection_skipping_rows(response, K, V) ==
    IF response.kind # "object"
    THEN Err("invalid type")
    ELSE LET offset == deserialize_field("Option<u32>", response.obj,
                                         "offset")
             rows == IF "rows" \notin DOMAIN response.obj
                     THEN Err("missing field")
                     ELSE IF response.obj["rows"].kind # "array"
                     THEN Err("invalid type")
                     ELSE rows_that_decode(response.obj["rows"].arr, K, V)
             total_rows == deserialize_field("Option<u32>", response.obj,
                                             "total_rows")
         IN  IF ~offset.ok THEN offset
             ELSE IF ~rows.ok THEN rows
             ELSE IF ~total_rows.ok THEN total_rows
             ELSE Ok([offset |-> offset.v, rows |-> rows.v,
                      total_rows |-> total_rows.v])

from_value_ViewCollection(response, K, V) ==
    IF response.kind # "object"
    THEN Err("invalid type")
    ELSE LET offset == deserialize_field("Option<u32>", response.obj,
                                         "offset")
             rows == IF "rows" \notin DOMAIN response.obj
                     THEN Err("missing field")
                     ELSE IF response.obj["rows"].kind # "array"
                     THEN Err("invalid type")
                     ELSE from_value_rows(response.obj["rows"].arr, K, V)
             total_rows == deserialize_field("Option<u32>", response.obj,
                                             "total_rows")
         IN  IF ~offset.ok THEN offset
             ELSE IF ~rows.ok THEN rows
             ELSE IF ~total_rows.ok THEN total_rows
             ELSE Ok([offset |-> offset.v, rows |-> rows.v,
                      total_rows |-> total_rows.v])

\* Database::query: the response of the view decoded as the collection the
\* caller declared; a response that does not decode is the call's error
query(response, K, V) ==
    LET decoded == from_value_ViewCollection(response, K, V)
    IN  IF decoded.ok
        THEN Ok(decoded.v)
        ELSE Err(from_serde_json_error(decoded.err))

(***************************************************************************)
(* Queries on view responses.                                              *)
(***************************************************************************)
\* the rows a view emits: key a string or null; value missing, null, a
\* string or a number; with or without the identity of the document
ViewRowSamples ==
    {JObject([k \in {"key"} \cup (IF v = None THEN {} ELSE {"value"})
                            \cup (IF id = None THEN {} ELSE {"id"}) |->
                 IF k = "key" THEN key ELSE IF k = "value" THEN v.v
                 ELSE id.v]) :
        key \in {JString(<<"a">>), JNull},
        v \in {None, Some(JNull), Some(JString(<<"x">>)), Some(JNumber(1))},
        id \in {None, Some(JString(<<"a">>))}}

\* a map view reports total_rows and offset, a reduced one does not
ViewResponse(rows, with_totals) ==
    JObject([k \in {"rows"} \cup (IF with_totals
                                  THEN {"total_rows", "offset"} ELSE {}) |->
                IF k = "rows" THEN JArray(rows)
                ELSE IF k = "total_rows" THEN JNumber(MaxViewRows)
                ELSE JNumber(0)])

ViewResponses ==
    {ViewResponse(rows, t) :
        rows \in SeqsUpTo(ViewRowSamples, MaxViewRows), t \in BOOLEAN}

KeyTypes == {"String", "Value"}

ValueTypes == {"String", "Value", "Option<String>"}

ViewInit ==
    /\ fcall \in {[fn |-> "query", response |-> r, K |-> K, V |-> V] :
                     r \in ViewResponses, K \in KeyTypes, V \in ValueTypes}
    /\ fret = None
    /\ call = [fn |-> "none"]
    /\ coll = DocumentCollection_default
    /\ pc = "call"
    /\ store = <<>>
    /\ uuids = 0
    /\ caller_docs = <<>>
    /\ sent = [docs |-> <<>>, store |-> store, uuids |-> 0]
    /\ results = None
    /\ held = <<>>
    /\ my_doc = JNull
    /\ last = [op |-> "none"]
    /\ producer = [pc |-> "idle"]
    /\ channel = [queue |-> <<>>]
    /\ consumer = [ended |-> FALSE]

Query ==
    /\ fret = None
    /\ fcall.fn = "query"
    /\ fret' = Some(query(fcall.response, fcall.K, fcall.V))
    /\ UNCHANGED <<fcall, collVars, dbVars, docVars, batchVars>>

ViewNext == Query

SpecView == ViewInit /\ [][ViewNext]_vars

(***************************************************************************)
(* Claims about decoding view rows.                                        *)
(***************************************************************************)
ViewRows == fcall.response.obj["rows"].arr

NullValueRows ==
    {i \in DOMAIN ViewRows :
        /\ "value" \in DOMAIN ViewRows[i].obj
        /\ ViewRows[i].obj["value"] = JNull}

\* every row has a value, and a key of the key type the caller declared
RowsFitExceptNull ==
    \A i \in DOMAIN ViewRows :
        /\ "value" \in DOMAIN ViewRows[i].obj
        /\ fcall.K = "String" => ViewRows[i].obj["key"].kind = "string"

\* C20: a row whose value is null is returned, with the others, by a query
\* that declares the permissive value type (Value), and makes a query that
\* declares the strict value type (String) fail as a whole; a query that
\* returns no rows succeeds with any value type.
C20_NullValueByValueType ==
    Applied("query") =>
        /\ ViewRows = <<>> => fret.v.ok
        /\ NullValueRows # {} /\ fcall.V = "String" => ~fret.v.ok
        /\ NullValueRows # {} /\ fcall.V = "Value" /\ RowsFitExceptNull =>
               /\ fret.v.ok
               /\ Len(fret.v.v.rows) = Len(ViewRows)
               /\ \A i \in NullValueRows : fret.v.v.rows[i].value = JNull

C20_Witness ==
    /\ Applied("query")
    /\ fcall.V = "String"
    /\ fcall.K = "String"
    /\ Len(ViewRows) = 2
    /\ NullValueRows = {2}
    /\ RowsFitExceptNull
    /\ ViewRows[1].obj["value"].kind = "string"
    /\ ViewRows[1].obj["key"].kind = "string"
    /\ ~fret.v.ok
    /\ query(fcall.response, "String", "Value").ok

(***************************************************************************)
(* TypedCouchDocument on untyped documents and on TestDocImplementing.     *)
(***************************************************************************)
\* impl TypedCouchDocument for TestDocImplementing
TestDocImplementing_get_id(self) == self.my_id

TestDocImplementing_get_rev(self) == self.my_rev

TestDocImplementing_merge_ids(self, other) ==
    [self EXCEPT !.my_id = other.my_id]

\* what an identity field may hold: nothing, a string, a number, null
FieldSamples == {None, Some(JString(<<"a">>)), Some(JNumber(1)), Some(JNull)}

\* a JSON object with those _id and _rev fields and one more field
ObjectWith(id, rev) ==
    JObject([k \in {"thing"} \cup (IF id = None THEN {} ELSE {ID_FIELD})
                             \cup (IF rev = None THEN {} ELSE {REV_FIELD}) |->
                IF k = ID_FIELD THEN id.v
                ELSE IF k = REV_FIELD THEN rev.v
                ELSE JBool(TRUE)])

ObjectSamples == {ObjectWith(id, rev) : id \in FieldSamples, rev \in FieldSamples}

\* values that are no keyed object: null, scalars, arrays
NonObjectSamples ==
    {JNull, JBool(TRUE), JNumber(1), JString(<<"a">>), JArray(<<>>),
     JArray(<<JString(<<"a">>)>>)}

UntypedSamples == ObjectSamples \cup NonObjectSamples

\* identities and revisions handed to the setters
StringArgs == {<<>>, <<"a">>, <<"b">>}

TestDocImplementingSamples ==
    [my_id : {<<>>, <<"a">>, <<"b">>}, my_rev : {<<>>, <<"1">>, <<"2">>},
     first_name : {<<"J">>}, last_name : {<<"D">>}]

DocCalls ==
    {[fn |-> f, self |-> v] : f \in {"get_id", "get_rev"}, v \in UntypedSamples}
    \cup {[fn |-> f, self |-> v, arg |-> a] :
              f \in {"set_id", "set_rev"}, v \in UntypedSamples,
              a \in StringArgs}
    \cup {[fn |-> "merge_ids", impl |-> "Value", self |-> v, other |-> o] :
              v \in NonObjectSamples \cup {ObjectWith(None, None),
                       ObjectWith(Some(JString(<<"b">>)), Some(JNumber(1)))},
              o \in UntypedSamples}
    \cup {[fn |-> "merge_ids", impl |-> "TestDocImplementing",
           self |-> v, other |-> o] :
              v \in TestDocImplementingSamples,
              o \in TestDocImplementingSamples}

DocInit ==
    /\ fcall \in DocCalls
    /\ fret = None
    /\ call = [fn |-> "none"]
    /\ coll = DocumentCollection_default
    /\ pc = "call"
    /\ store = <<>>
    /\ uuids = 0
    /\ caller_docs = <<>>
    /\ sent = [docs |-> <<>>, store |-> store, uuids |-> 0]
    /\ results = None
    /\ held = <<>>
    /\ my_doc = JNull
    /\ last = [op |-> "none"]
    /\ producer = [pc |-> "idle"]
    /\ channel = [queue |-> <<>>]
    /\ consumer = [ended |-> FALSE]

FnUnchanged == UNCHANGED <<fcall, collVars, dbVars, docVars, batchVars>>

GetId ==
    /\ fret = None
    /\ fcall.fn = "get_id"
    /\ fret' = Some(get_id(fcall.self))
    /\ FnUnchanged

GetRev ==
    /\ fret = None
    /\ fcall.fn = "get_rev"
    /\ fret' = Some(get_rev(fcall.self))
    /\ FnUnchanged

SetId ==
    /\ fret = None
    /\ fcall.fn = "set_id"
    /\ fret' = Some(set_id(fcall.self, fcall.arg))
    /\ FnUnchanged

SetRev ==
    /\ fret = None
    /\ fcall.fn = "set_rev"
    /\ fret' = Some(set_rev(fcall.self, fcall.arg))
    /\ FnUnchanged

MergeIds ==
    /\ fret = None
    /\ fcall.fn = "merge_ids"
    /\ fcall.impl = "Value"
    /\ fret' = Some(merge_ids(fcall.self, fcall.other))
    /\ FnUnchanged

MergeIdsImplementing ==
    /\ fret = None
    /\ fcall.fn = "merge_ids"
    /\ fcall.impl = "TestDocImplementing"
    /\ fret' = Some(TestDocImplementing_merge_ids(fcall.self, fcall.other))
    /\ FnUnchanged

DocNext ==
    \/ GetId
    \/ GetRev
    \/ SetId
    \/ SetRev
    \/ MergeIds
    \/ MergeIdsImplementing

SpecDoc == DocInit /\ [][DocNext]_vars

(***************************************************************************)
(* Claims about the identity of untyped documents.                         *)
(***************************************************************************)
\* the string under a key of a JSON value, or "" when the value is no
\* object, lacks the key, or holds something else than a string there
StringAt(value, key) ==
    IF value.kind = "object" /\ key \in DOMAIN value.obj
            /\ value.obj[key].kind = "string"
    THEN value.obj[key].str
    ELSE <<>>

\* C23: get_id of an untyped document is the string in its _id field, and
\* the empty string when the field is absent or no string (or the value no
\* object); get_rev likewise for _rev.
C23_GetIdGetRevDefault ==
    /\ Applied("get_id") => fret.v = StringAt(fcall.self, "_id")
    /\ Applied("get_rev") => fret.v = StringAt(fcall.self, "_rev")

C23_Witness ==
    /\ Applied("get_id")
    /\ fcall.self.kind = "object"
    /\ "_id" \in DOMAIN fcall.self.obj
    /\ fcall.self.obj["_id"].kind = "number"
    /\ fret.v = <<>>

\* C24: on a JSON object set_id(s) / set_rev(s) put the string s under _id /
\* _rev, new or overwritten, so that get_id / get_rev then returns s; a
\* value that is no object (null, scalar, array) stays as it is.
C24_SetThenGet ==
    /\ Applied("set_id") =>
           IF fcall.self.kind = "object"
           THEN /\ fret.v.obj["_id"] = JString(fcall.arg)
                /\ get_id(fret.v) = fcall.arg
           ELSE fret.v = fcall.self
    /\ Applied("set_rev") =>
           IF fcall.self.kind = "object"
           THEN /\ fret.v.obj["_rev"] = JString(fcall.arg)
                /\ get_rev(fret.v) = fcall.arg
           ELSE fret.v = fcall.self

C24_Witness ==
    /\ Applied("set_id")
    /\ fcall.self.kind = "object"
    /\ "_id" \in DOMAIN fcall.self.obj
    /\ fcall.self.obj["_id"] = JNumber(1)
    /\ fcall.arg = <<"b">>
    /\ get_id(fret.v) = <<"b">>

\* C25: after self.merge_ids(other) the identity and the revision of self
\* are those of other, for each implementation of TypedCouchDocument.
C25_MergeCopiesIdentityAndRevision ==
    Applied("merge_ids") =>
        IF fcall.impl = "Value"
        THEN /\ get_id(fret.v) = get_id(fcall.other)
             /\ get_rev(fret.v) = get_rev(fcall.other)
        ELSE /\ TestDocImplementing_get_id(fret.v)
                    = TestDocImplementing_get_id(fcall.other)
             /\ TestDocImplementing_get_rev(fret.v)
                    = TestDocImplementing_get_rev(fcall.other)

\* C30: on a JSON object set_rev changes nothing but _rev and set_id nothing
\* but _id: the other fields, the other identity field among them, keep
\* their values, and a second application of the same call changes nothing.
OtherFieldsKept(before, after, key) ==
    /\ after.kind = "object"
    /\ DOMAIN after.obj = DOMAIN before.obj \cup {key}
    /\ \A k \in DOMAIN before.obj \ {key} : after.obj[k] = before.obj[k]

C30_SettersTouchOneField ==
    /\ Applied("set_id") /\ fcall.self.kind = "object" =>
           /\ OtherFieldsKept(fcall.self, fret.v, "_id")
           /\ set_id(fret.v, fcall.arg) = fret.v
    /\ Applied("set_rev") /\ fcall.self.kind = "object" =>
           /\ OtherFieldsKept(fcall.self, fret.v, "_rev")
           /\ set_rev(fret.v, fcall.arg) = fret.v

C30_Witness ==
    /\ Applied("set_rev")
    /\ fcall.self = ObjectWith(Some(JString(<<"a">>)), Some(JString(<<"a">>)))
    /\ fcall.arg = <<"b">>
    /\ fret.v.obj["_id"] = JString(<<"a">>)
    /\ fret.v.obj["_rev"] = JString(<<"b">>)

(***************************************************************************)
(* More properties of DocumentCollection::new.                             *)
(***************************************************************************)
\* C26: the rows of the collection built by DocumentCollection::new are a
\* subsequence of the response's rows: there is an order-preserving choice
\* of response rows whose embedded documents are the collection's rows; the
\* offset is the response's and there is no bookmark.
C26_RowsAreSubsequence ==
    ReturnedFrom("new") =>
        /\ \E f \in [DOMAIN coll.rows -> DOMAIN ResponseRows] :
             /\ \A j, k \in DOMAIN coll.rows : j < k => f[j] < f[k]
             /\ \A j \in DOMAIN coll.rows :
                  ResponseRows[f[j]].doc = Some(coll.rows[j])
        /\ coll.offset = call.doc.offset
        /\ coll.bookmark = None

C26_Witness ==
    /\ ReturnedFrom("new")
    /\ Len(ResponseRows) = 3
    /\ ErrorRows = {2}
    /\ Len(coll.rows) = 2
    /\ coll.rows[1] # coll.rows[2]
    /\ coll.rows = <<ResponseRows[1].doc.v, ResponseRows[3].doc.v>>
    /\ coll.offset = Some(1)

\* C29: a row with neither an error marker nor an embedded document is not
\* in the collection built by DocumentCollection::new and is not counted in
\* total_rows; a document with an empty identity is kept, as often as rows
\* without an error marker embed it.
C29_RowsWithoutDocumentDropped ==
    ReturnedFrom("new") =>
        /\ coll.total_rows = Len(coll.rows)
        /\ coll.total_rows
             <= Card({i \in DOMAIN ResponseRows : ResponseRows[i].doc.some})
        /\ NoDocRows = DOMAIN ResponseRows => coll.rows = <<>>
        /\ \A d \in DocSamples :
             get_id(d) = <<>> =>
                 Count(coll.rows, d)
                   = Card({i \in DOMAIN ResponseRows \ ErrorRows :
                              ResponseRows[i].doc = Some(d)})

C29_Witness ==
    /\ ReturnedFrom("new")
    /\ Len(ResponseRows) = 2
    /\ NoDocRows = {1}
    /\ 2 \notin ErrorRows
    /\ ResponseRows[2].doc.some
    /\ get_id(ResponseRows[2].doc.v) = <<>>
    /\ coll.rows = <<ResponseRows[2].doc.v>>
    /\ coll.total_rows = 1

(***************************************************************************)
(* Database::get_all_batched: a producer that reads the database page by   *)
(* page and hands each page to a channel, and the loop that receives.      *)
(***************************************************************************)
\* identities of application documents ("bd_1", ..) and of a design document
AppId(k) == <<"b", "d", "_", ToString(k)>>

DesignId == <<"_", "d">>

\* the identities in the order of a full read: the design document first
BatchOrder == <<DesignId>> \o [k \in 1..MaxStored |-> AppId(k)]

\* a database of n application documents, with or without a design document
BatchHeld(n, design) ==
    [id \in {AppId(k) : k \in 1..n} \cup (IF design THEN {DesignId} ELSE {}) |->
        [f \in {"count"} |-> JNumber(0)]]

Min(a, b) == IF a <= b THEN a ELSE b

\* one page of a full read: the rows after the first skip, at most limit
server_page(db, skip, limit) ==
    LET all == rows_of(db, BatchOrder)
    IN  [total_rows |-> Some(Len(all)), offset |-> Some(skip),
         rows |-> SubSeq(all, skip + 1, Min(skip + limit, Len(all)))]

\* batch size 0 stands for the default
page_limit(batch_size) ==
    IF batch_size > 0 THEN batch_size ELSE DefaultBatchSize

\* where the next page starts: after the rows of the response just received
next_position_by_limit(position, limit, response) == position + limit

next_position(position, limit, response) == position + Len(response.rows)

\* what the producer does after handing a page to the sink: the next
\* request when the page was taken, return when the delivery failed
after_send_ignoring_failure(delivered) == "request"

after_send(delivered) == IF delivered THEN "request" ELSE "done"

\* the sink is owned by get_all_batched and dropped when it returns
sink_never_released(p) == FALSE

sink_released(p) == p.pc = "done"

BatchInit ==
    /\ \E n \in 0..MaxStored, design \in BOOLEAN :
         /\ held = BatchHeld(n, design)
         /\ store = [id \in DOMAIN held |-> 1]
    /\ uuids = 0
    /\ \E batch_size \in 0..DefaultBatchSize :
         producer = [pc |-> "request", batch_size |-> batch_size,
                     position |-> 0, page |-> None, in_flight |-> 0,
                     requests |-> <<>>, responses |-> <<>>,
                     delivered |-> <<>>, failed |-> FALSE, result |-> None]
    /\ channel = [queue |-> <<>>, rx_open |-> TRUE]
    /\ consumer = [retrieved |-> 0, received |-> <<>>, ended |-> FALSE]
    /\ call = [fn |-> "none"]
    /\ coll = DocumentCollection_default
    /\ pc = "call"
    /\ caller_docs = <<>>
    /\ sent = [docs |-> <<>>, store |-> <<>>, uuids |-> 0]
    /\ results = None
    /\ my_doc = JNull
    /\ last = [op |-> "none"]
    /\ fcall = [fn |-> "none"]
    /\ fret = None

BatchUnchanged ==
    UNCHANGED <<collVars, dbVars, docVars, fnVars>>

\* the producer asks for the page at its position
SendRequest ==
    /\ producer.pc = "request"
    /\ Len(producer.requests) < MaxStored + 3
    /\ producer' = [producer EXCEPT
           !.pc = "waiting",
           !.in_flight = @ + 1,
           !.requests = Append(@, [skip |-> producer.position,
                                   limit |-> page_limit(producer.batch_size)])]
    /\ UNCHANGED <<channel, consumer>>
    /\ BatchUnchanged

\* the response arrives: no rows ends the read, rows make a page
Respond ==
    /\ producer.pc = "waiting"
    /\ LET request == producer.requests[Len(producer.requests)]
           response == server_page(Db, request.skip, request.limit)
       IN  producer' = [producer EXCEPT
               !.in_flight = @ - 1,
               !.responses = Append(@, response),
               !.pc = IF response.rows = <<>> THEN "done" ELSE "deliver",
               !.result = IF response.rows = <<>> THEN Some(Ok("done")) ELSE @,
               !.page = IF response.rows = <<>>
                        THEN None
                        ELSE Some(DocumentCollection_new(response))]
    /\ UNCHANGED <<channel, consumer>>
    /\ BatchUnchanged

\* tx.send(page) with room in the channel
Deliver ==
    /\ producer.pc = "deliver"
    /\ channel.rx_open
    /\ Len(channel.queue) < ChannelCapacity
    /\ channel' = [channel EXCEPT !.queue = Append(@, producer.page.v)]
    /\ LET request == producer.requests[Len(producer.requests)]
           response == producer.responses[Len(producer.responses)]
       IN  producer' = [producer EXCEPT
               !.pc = after_send(TRUE),
               !.page = None,
               !.delivered = Append(@, producer.page.v),
               !.position = next_position(@, request.limit, response)]
    /\ UNCHANGED consumer
    /\ BatchUnchanged

\* tx.send(page) when the receiving end is gone
DeliverFails ==
    /\ producer.pc = "deliver"
    /\ ~channel.rx_open
    /\ producer' = [producer EXCEPT
           !.pc = after_send(FALSE),
           !.failed = TRUE,
           !.result = Some(Ok("stopped"))]
    /\ UNCHANGED <<channel, consumer>>
    /\ BatchUnchanged

\* while let Some(all_docs) = rx.recv().await { retrieved += total_rows }
Recv ==
    /\ channel.rx_open
    /\ channel.queue # <<>>
    /\ consumer' = [consumer EXCEPT
           !.retrieved = @ + Head(channel.queue).total_rows,
           !.received = Append(@, Head(channel.queue))]
    /\ channel' = [channel EXCEPT !.queue = Tail(@)]
    /\ UNCHANGED producer
    /\ BatchUnchanged

\* rx.recv() is None: the channel is empty and the sink is dropped
EndOfStream ==
    /\ channel.rx_open
    /\ ~consumer.ended
    /\ channel.queue = <<>>
    /\ sink_released(producer)
    /\ consumer' = [consumer EXCEPT !.ended = TRUE]
    /\ UNCHANGED <<producer, channel>>
    /\ BatchUnchanged

\* the consumer stops receiving: the receiving end is dropped
Close ==
    /\ channel.rx_open
    /\ ~consumer.ended
    /\ channel' = [queue |-> <<>>, rx_open |-> FALSE]
    /\ UNCHANGED <<producer, consumer>>
    /\ BatchUnchanged

ProducerNext == SendRequest \/ Respond \/ Deliver \/ DeliverFails

BatchNext == ProducerNext \/ Recv \/ EndOfStream \/ Close

SpecBatch == BatchInit /\ [][BatchNext]_vars

\* a consumer that keeps receiving; the producer's task, the database and
\* the receive loop all get to run
ReceivingNext == SendRequest \/ Respond \/ Deliver \/ Recv \/ EndOfStream

SpecBatchReceiving ==
    /\ BatchInit
    /\ [][ReceivingNext]_vars
    /\ WF_vars(SendRequest)
    /\ WF_vars(Respond)
    /\ WF_vars(Deliver)
    /\ WF_vars(Recv)
    /\ WF_vars(EndOfStream)

(***************************************************************************)
(* Claims about get_all_batched.                                           *)
(***************************************************************************)
\* the application documents the database holds
AppDocs == {id \in DOMAIN held : ~starts_with(id, "_")}

RECURSIVE SumRows(_)
SumRows(pages) ==
    IF pages = <<>> THEN 0 ELSE Len(Head(pages).rows) + SumRows(Tail(pages))

\* the places of the documents delivered: page and row
Places(pages) ==
    {pl \in (DOMAIN pages) \X (1..MaxStored + 1) :
        pl[2] \in DOMAIN pages[pl[1]].rows}

\* C21: the pages get_all_batched delivers come in non-decreasing offset
\* order and hold no document twice; when it has returned and every delivery
\* went through, their row counts sum to the number M of application
\* documents and every one of these is on a page; the receive loop that saw
\* the end has counted M; with batch size 0 every request asks for the
\* default page size.
C21_PagesCoverTheStore ==
    LET pages == producer.delivered
    IN  /\ \A i, j \in DOMAIN pages :
             i < j => pages[i].offset.v <= pages[j].offset.v
        /\ \A p, q \in Places(pages) :
             p # q => IdOf(pages[p[1]].rows[p[2]])
                        # IdOf(pages[q[1]].rows[q[2]])
        /\ producer.pc = "done" /\ ~producer.failed =>
             /\ SumRows(pages) = Card(AppDocs)
             /\ {IdOf(pages[p[1]].rows[p[2]]) : p \in Places(pages)} = AppDocs
        /\ consumer.ended => consumer.retrieved = Card(AppDocs)
        /\ producer.batch_size = 0 =>
             \A k \in DOMAIN producer.requests :
                 producer.requests[k].limit = DefaultBatchSize

C21_Witness ==
    /\ consumer.ended
    /\ producer.batch_size = 0
    /\ DesignId \in DOMAIN held
    /\ Card(AppDocs) = MaxStored
    /\ Len(consumer.received) >= 2
    /\ consumer.retrieved = MaxStored

\* C22: once the producer has seen a delivery fail, which it does when the
\* consumer has stopped receiving, it sends no page request any more.
C22_NoRequestAfterFailedDelivery ==
    [][producer.failed => producer'.requests = producer.requests]_vars

C22_Witness ==
    /\ producer.failed
    /\ ~channel.rx_open
    /\ producer.pc = "done"
    /\ producer.position + Len(producer.page.v.rows) < Card(DOMAIN held)

\* C27: at most one page request is in flight; a request is sent only when
\* every earlier one has been answered, the first asks for the start and
\* each later one for the position right after the rows of the response
\* before it.
C27_OneRequestInFlight ==
    LET requests == producer.requests
        responses == producer.responses
    IN  /\ producer.in_flight <= 1
        /\ Len(requests) = Len(responses) + producer.in_flight
        /\ requests # <<>> => requests[1].skip = 0
        /\ \A k \in DOMAIN requests :
             k > 1 => /\ k - 1 \in DOMAIN responses
                      /\ requests[k].skip
                           = requests[k - 1].skip + Len(responses[k - 1].rows)

C27_Witness ==
    /\ Len(producer.requests) = 3
    /\ producer.in_flight = 1
    /\ Len(producer.responses[2].rows) < producer.requests[2].limit
    /\ producer.requests[3].skip = MaxStored

\* C28: with a consumer that keeps receiving, get_all_batched eventually
\* returns Ok and drops the sink, and the receive loop eventually sees the
\* end of the stream, after the last page.
C28_StreamEnds ==
    <>(/\ producer.result = Some(Ok("done"))
       /\ sink_released(producer)
       /\ consumer.ended
       /\ consumer.received = producer.delivered)

C28_Witness ==
    /\ consumer.ended
    /\ producer.result = Some(Ok("done"))
    /\ Len(consumer.received) = MaxStored

====
